---------------------------- MODULE Spec2Model ----------------------------
(***************************************************************************)
(* A model of predictor.ipynb: the whitespace tokenizer, the embedding,    *)
(* the sinusoidal positional encoding, single-head self-attention, the     *)
(* transformer block, the SimpleLLM forward pass, the greedy inference     *)
(* cell and the training loop.                                             *)
(*                                                                         *)
(* Tensors are nested sequences of integers.  A real number r is held as   *)
(* the integer r * Scale (fixed point, three decimal digits); attention    *)
(* weights are held at the finer resolution WScale (six decimal digits).   *)
(* Each library primitive (nn.Linear, nn.LayerNorm, torch.softmax,         *)
(* torch.bmm, torch.argmax, broadcasting "+", str.split, dict.get) is      *)
(* written out from its documented behaviour; every division rounds down,  *)
(* which stands for the rounding of float32.                               *)
(***************************************************************************)
EXTENDS Integers, Sequences, FiniteSets, TLC

VARIABLES
    pc,          \* where the operation in progress stands
    text,        \* tokenize: the text argument, a sequence of characters
    vocab,       \* tokenize: the vocab argument, a function word -> ID
    tokens,      \* tokenize: what the call produced
    params,      \* the model's weight tensors
    pe,          \* PositionalEncoding's registered buffer 'pe'
    input,       \* the argument of the call in progress
    x,           \* the local x of the forward in progress
    attended,    \* TransformerBlock.forward's local attended
    forwarded,   \* TransformerBlock.forward's local forwarded
    scores,      \* SelfAttention.forward's local scores
    attention_weights, \* SelfAttention.forward's local attention_weights
    output,      \* what the call in progress returned
    last,        \* the previous completed forward: its input, weights, result
    predicted_token, \* the inference cell's predicted_token
    layer,       \* SimpleLLM.forward: the block nn.Sequential runs next
    caller,      \* which cell called the forward in progress
    data,        \* training cell: tokenized_data
    epoch,       \* training cell: epoch
    sent,        \* training cell: index of sentence in tokenized_data
    i,           \* training cell: i
    input_seq,   \* training cell: input_seq
    target,      \* training cell: target
    loss,        \* training cell: loss
    grads,       \* the gradients accumulated in the parameters' .grad
    steps,       \* number of optimizer.step() calls made
    phases       \* the calls made so far in the training step in progress

vars == <<pc, text, vocab, tokens, params, pe, input, x, attended, forwarded,
          scores, attention_weights, output, last, predicted_token, layer,
          caller, data, epoch, sent, i, input_seq, target, loss, grads, steps, phases>>

tokVars   == <<text, vocab, tokens>>
netVars   == <<params, pe, input, x, attended, forwarded, scores,
               attention_weights, output, last, predicted_token, layer,
               caller>>
trainVars == <<data, epoch, sent, i, input_seq, target, loss, grads, steps,
               phases>>

-----------------------------------------------------------------------------
(* Bounds of the model.                                                    *)

\* longest text, in characters
MaxTextLen == 3
\* largest ID a vocabulary of the tokenizer model assigns
MaxId == 2
\* embedding_dim is 2 * HalfDim (PositionalEncoding fills even and odd columns)
HalfDim == 2
\* hidden_dim of the feed-forward layer
HiddenDim == 2
\* number of rows of the embedding table and of logits per position
VocabSize == 3
\* longest token sequence given to a forward pass
MaxLen == 3
\* largest batch
MaxBatch == 2
\* largest max_seq_len PositionalEncoding is constructed with on its own
MaxSeqLen == 3
\* weight tensors are drawn from the family MakeParams(0) .. MakeParams(MaxSeed)
MaxSeed == 2

-----------------------------------------------------------------------------
(* Fixed point.                                                            *)

Scale  == 10 * 10 * 10
WScale == Scale * Scale

\* the sequence f, each of its elements evaluated once
AsSeq(f) == f \o <<>>

Min(a, b) == IF a < b THEN a ELSE b
Max(a, b) == IF a > b THEN a ELSE b
Abs(a)    == IF a < 0 THEN -a ELSE a

RECURSIVE SumSeq(_)
SumSeq(s) == IF s = <<>> THEN 0 ELSE s[1] + SumSeq(Tail(s))

RECURSIVE MaxSeq(_)
MaxSeq(s) == IF Len(s) = 1 THEN s[1] ELSE Max(s[1], MaxSeq(Tail(s)))

\* integer square root: the largest r with r * r <= n, by bisection on [lo, hi)
RECURSIVE SqrtBetween(_, _, _)
SqrtBetween(n, lo, hi) ==
    IF hi - lo <= 1 THEN lo
    ELSE LET mid == (lo + hi) \div 2
         IN  IF mid * mid <= n THEN SqrtBetween(n, mid, hi)
             ELSE SqrtBetween(n, lo, mid)

ISqrt(n) == SqrtBetween(n, 0, Min(n, 46340) + 1)

Sgn(a) == IF a < 0 THEN -1 ELSE 1

\* a * b / Scale, rounded towards zero
FxMul(a, b) == Sgn(a) * Sgn(b) * ((Abs(a) * Abs(b)) \div Scale)

\* sum from the n-th term on of the series whose n-th term is term and whose
\* next term is -term * (a/Scale)^2 / ((n+1)(n+2)): sin from (a, 1), cos from
\* (Scale, 0)
RECURSIVE Series(_, _, _)
Series(term, a, n) ==
    IF term = 0 THEN 0
    ELSE LET sq   == FxMul(FxMul(term, a), a)
             next == -Sgn(sq) * (Abs(sq) \div ((n + 1) * (n + 2)))
         IN  term + Series(next, a, n + 2)

\* torch.sin, torch.cos of a / Scale radians, for 0 <= a
Sin(a) == Series(a, a, 1)
Cos(a) == Series(Scale, a, 0)

\* sum from the n-th term on of the exponential series of -(a / Scale)
RECURSIVE ExpSeries(_, _, _)
ExpSeries(term, a, n) ==
    IF term = 0 THEN 0
    ELSE LET m    == FxMul(term, a)
             next == -Sgn(m) * (Abs(m) \div (n + 1))
         IN  term + ExpSeries(next, a, n + 1)

\* torch.exp of -(a / Scale) for a >= 0, by halving the argument
RECURSIVE ExpNeg(_)
ExpNeg(a) ==
    IF a < Scale THEN Max(ExpSeries(Scale, a, 0), 0)
    ELSE (ExpNeg(a \div 2) * ExpNeg(a - (a \div 2))) \div Scale

-----------------------------------------------------------------------------
(* Step 1: tokenize(text, vocab).                                          *)
(* A text is a sequence of characters; the five characters of the key      *)
(* "<UNK>" are written as one element so that short texts can hold it.     *)

Whitespace == {" ", "\n"}
Alphabet   == {"a", "b", "<UNK>"} \cup Whitespace
UNK        == <<"<UNK>">>

IsSpace(c) == c \in Whitespace

RECURSIVE SeqsUpTo(_, _)
SeqsUpTo(S, n) ==
    IF n = 0 THEN {<<>>}
    ELSE LET shorter == SeqsUpTo(S, n - 1)
         IN  shorter \cup {Append(q, c) : q \in shorter, c \in S}

Texts == SeqsUpTo(Alphabet, MaxTextLen)

\* the words a vocabulary may have as keys
KeyWords == {<<"a">>, <<"a", "b">>, UNK}
Vocabs   == UNION {[K -> 0..MaxId] : K \in SUBSET KeyWords}

\* str.split(" "): every blank delimits, empty words are kept
RECURSIVE SplitOnBlank(_, _, _)
SplitOnBlank(s, word, words) ==
    IF s = <<>> THEN Append(words, word)
    ELSE IF Head(s) = " " THEN SplitOnBlank(Tail(s), <<>>, Append(words, word))
    ELSE SplitOnBlank(Tail(s), Append(word, Head(s)), words)

\* str.split(): runs of whitespace delimit, no empty word is produced
RECURSIVE SplitWalk(_, _, _)
SplitWalk(s, word, words) ==
    LET closed == IF word = <<>> THEN words ELSE Append(words, word)
    IN  IF s = <<>> THEN closed
        ELSE IF IsSpace(Head(s)) THEN SplitWalk(Tail(s), <<>>, closed)
        ELSE SplitWalk(Tail(s), Append(word, Head(s)), words)

SplitSingle(t) == SplitOnBlank(t, <<>>, <<>>)
Split(t) == SplitWalk(t, <<>>, <<>>)

\* vocab[word]: KeyError when the word is no key
GetStrict(v, word) ==
    IF word \in DOMAIN v THEN [err |-> "", id |-> v[word]]
    ELSE [err |-> "KeyError", id |-> 0]

\* vocab.get(word, vocab["<UNK>"]): the default is evaluated before the lookup
GetOrUnk(v, word) ==
    IF UNK \notin DOMAIN v THEN [err |-> "KeyError", id |-> 0]
    ELSE IF word \in DOMAIN v THEN [err |-> "", id |-> v[word]]
    ELSE [err |-> "", id |-> v[UNK]]

NoTokens == [err |-> "pending", ids |-> <<>>]

tokenize(t, v) ==
    LET words == Split(t)
        got   == AsSeq([k \in 1..Len(words) |-> GetOrUnk(v, words[k])])
    IN  IF \E k \in 1..Len(words) : got[k].err # ""
        THEN [err |-> "KeyError", ids |-> <<>>]
        ELSE [err |-> "", ids |-> AsSeq([k \in 1..Len(words) |-> got[k].id])]

-----------------------------------------------------------------------------
(* Tensors and the library primitives.                                     *)
(* A tensor of shape (n0, n1, n2) is a sequence of n0 sequences of n1      *)
(* vectors of n2 numbers.  An operation that can raise returns a record:   *)
(* err is "" and val the tensor, or err names the exception.               *)

Ok(v)  == [err |-> "", val |-> v]
Err(e) == [err |-> e, val |-> <<>>]

embedding_dim == 2 * HalfDim
hidden_dim    == HiddenDim
vocab_size    == VocabSize
num_layers    == 2

\* the weights of the model family: entry (r, c) of tensor number tag of the
\* family member seed, in [-0.45, 0.45].  Member 0 has all rows of a matrix
\* equal, so its logits tie.
GenWeight(seed, tag, r, c) ==
    ((((seed * 31) + (tag * 17) + (c * 7) + (tag * c * 11)
       + (seed * r * (13 + (3 * c)))) % 19) - 9) * 50

GenVector(seed, tag, n) == AsSeq([c \in 1..n |-> GenWeight(seed, tag, 1, c)])

GenMatrix(seed, tag, rows, cols) ==
    AsSeq([r \in 1..rows |-> AsSeq([c \in 1..cols |-> GenWeight(seed, tag, r, c)])])

\* an input tensor of shape (n0, n1, embedding_dim), entries in [-1.35, 1.35]
GenTensor(seed, n0, n1) ==
    AsSeq([a \in 1..n0 |-> AsSeq([b \in 1..n1 |-> AsSeq([c \in 1..embedding_dim |->
        3 * GenWeight(seed + 1, a, b, c)])])])

\* nn.Linear(cols, rows): weight of shape (rows, cols) and bias
GenLinear(seed, tag, rows, cols) ==
    [weight |-> GenMatrix(seed, tag, rows, cols),
     bias   |-> GenVector(seed, tag + 1, rows)]

\* nn.LayerNorm(n): weight near 1, bias near 0
GenNorm(seed, tag, n) ==
    [weight |-> AsSeq([c \in 1..n |-> Scale + (GenWeight(seed, tag, 1, c) \div 3)]),
     bias   |-> AsSeq([c \in 1..n |-> GenWeight(seed, tag + 1, 1, c) \div 3])]

Dot(u, v) == SumSeq(AsSeq([c \in 1..Len(u) |-> u[c] * v[c]]))

VecAdd(u, v) == AsSeq([c \in 1..Len(u) |-> u[c] + v[c]])

\* x + y on tensors of the same shape
TensorAdd(a, b) ==
    AsSeq([r \in 1..Len(a) |-> AsSeq([c \in 1..Len(a[r]) |-> VecAdd(a[r][c], b[r][c])])])

\* no transpose: x as it is
NoTranspose(t) == t

\* x.transpose(0, 1)
Transpose01(t) ==
    IF t = <<>> THEN <<>>
    ELSE AsSeq([c \in 1..Len(t[1]) |-> AsSeq([r \in 1..Len(t) |-> t[r][c]])])

\* nn.Linear applied to one vector: y = x W^T + b
LinearVec(v, lin) ==
    AsSeq([r \in 1..Len(lin.weight) |->
        (Dot(v, lin.weight[r]) \div Scale) + lin.bias[r]])

\* nn.Linear applied over the last dimension of a tensor
Linear(t, lin) ==
    AsSeq([r \in 1..Len(t) |-> AsSeq([c \in 1..Len(t[r]) |-> LinearVec(t[r][c], lin)])])

\* nn.ReLU on one vector
ReLU(v) == AsSeq([c \in 1..Len(v) |-> Max(0, v[c])])

\* nn.LayerNorm's eps, 1e-5, at the scale of a variance
LayerNormEps == WScale \div (100 * Scale)

\* nn.LayerNorm over one vector: zero mean, unit (biased) variance, then the
\* learned scale and shift
LayerNormVec(v, norm) ==
    LET n     == Len(v)
        mean  == SumSeq(v) \div n
        dev   == AsSeq([c \in 1..n |-> v[c] - mean])
        var   == SumSeq(AsSeq([c \in 1..n |-> dev[c] * dev[c]])) \div n
        denom == ISqrt(var + LayerNormEps)
    IN  AsSeq([c \in 1..n |->
            FxMul(Sgn(dev[c]) * ((Abs(dev[c]) * Scale) \div denom), norm.weight[c])
            + norm.bias[c]])

LayerNorm(t, norm) ==
    AsSeq([r \in 1..Len(t) |-> AsSeq([c \in 1..Len(t[r]) |-> LayerNormVec(t[r][c], norm)])])

\* torch.softmax over one row of scores; the weights are at scale WScale
SoftmaxRow(row) ==
    LET m   == MaxSeq(row)
        e   == AsSeq([c \in 1..Len(row) |-> ExpNeg(m - row[c])])
        tot == SumSeq(e)
    IN  AsSeq([c \in 1..Len(row) |-> (e[c] * WScale) \div tot])

\* w * v / WScale for a weight w at scale WScale, without leaving 32 bits
MulW(w, v) ==
    Sgn(v) * ((((w \div Scale) * Abs(v)) + (((w % Scale) * Abs(v)) \div Scale))
              \div Scale)

\* torch.sqrt(torch.tensor(n)) at scale Scale
SqrtOf(n) == ISqrt(n * WScale)

-----------------------------------------------------------------------------
(* Step 2: Embedding.                                                      *)

\* nn.Embedding(vocab_size, embedding_dim).forward on IDs of shape (B, L):
\* IndexError for an ID outside [0, vocab_size)
EmbeddingForward(ids, table) ==
    IF \E b \in 1..Len(ids) : \E k \in 1..Len(ids[b]) :
           ids[b][k] < 0 \/ ids[b][k] >= Len(table)
    THEN Err("IndexError")
    ELSE Ok(AsSeq([b \in 1..Len(ids) |-> AsSeq([k \in 1..Len(ids[b]) |-> table[ids[b][k] + 1]])]))

-----------------------------------------------------------------------------
(* Step 3: PositionalEncoding.                                             *)

\* 1 / div_term[k] = 10000^(2k / dim), for dim a power of two up to 8 (the
\* exponent 8k / dim of ten is rounded down otherwise)
RECURSIVE PowerOfTen(_)
PowerOfTen(n) == IF n = 0 THEN 1 ELSE 10 * PowerOfTen(n - 1)

InvDivTerm(k, dim) == PowerOfTen((8 * k) \div dim)

\* __init__: the buffer pe of shape (max_seq_len, 1, embedding_dim); row p + 1
\* is position p, column 2k + 1 its entry 2k (sine), column 2k + 2 its entry
\* 2k + 1 (cosine)
PETable(dim, max_seq_len) ==
    AsSeq([p \in 1..max_seq_len |-> <<AsSeq([c \in 1..dim |->
        LET k     == (c - 1) \div 2
            angle == ((p - 1) * Scale) \div InvDivTerm(k, dim)
        IN  IF c % 2 = 1 THEN Sin(angle) ELSE Cos(angle)])>>])

\* pe[:n, :]: a slice past the end stops at the end
PESlice(buf, n) == SubSeq(buf, 1, Min(n, Len(buf)))

\* forward: x + self.pe[:x.size(0), :] with torch's broadcasting of dimension 0
\* (equal sizes, or a size of 1 stretched to the other; RuntimeError otherwise)
\* and of the buffer's dimension 1, which is 1
PEForward(t, buf) ==
    LET n     == Len(t)
        slice == PESlice(buf, n)
        rows  == Len(slice)
    IN  IF rows = n
        THEN Ok(AsSeq([r \in 1..n |-> AsSeq([b \in 1..Len(t[r]) |->
                    VecAdd(t[r][b], slice[r][1])])]))
        ELSE IF rows = 1
        THEN Ok(AsSeq([r \in 1..n |-> AsSeq([b \in 1..Len(t[r]) |->
                    VecAdd(t[r][b], slice[1][1])])]))
        ELSE IF n = 1
        THEN Ok(AsSeq([r \in 1..rows |-> AsSeq([b \in 1..Len(t[1]) |->
                    VecAdd(t[1][b], slice[r][1])])]))
        ELSE Err("RuntimeError")

-----------------------------------------------------------------------------
(* Step 4: SelfAttention.                                                  *)

GenAttention(seed, tag) ==
    [query |-> GenLinear(seed, tag, embedding_dim, embedding_dim),
     key   |-> GenLinear(seed, tag + 2, embedding_dim, embedding_dim),
     value |-> GenLinear(seed, tag + 4, embedding_dim, embedding_dim)]

\* torch.bmm(queries, keys.transpose(1, 2)) / torch.sqrt(x.size(-1))
AttentionScores(t, att) ==
    LET queries == Linear(t, att.query)
        keys    == Linear(t, att.key)
    IN  AsSeq([b \in 1..Len(t) |-> AsSeq([r \in 1..Len(t[b]) |-> AsSeq([c \in 1..Len(t[b]) |->
            ((Dot(queries[b][r], keys[b][c]) \div Scale) * Scale)
                \div SqrtOf(embedding_dim)])])])

\* torch.softmax(scores, dim=0) of one (L, L) matrix: over each column
SoftmaxOverRows(m) ==
    AsSeq([r \in 1..Len(m) |-> AsSeq([c \in 1..Len(m) |->
        SoftmaxRow(AsSeq([k \in 1..Len(m) |-> m[k][c]]))[r]])])

\* torch.softmax(scores, dim=1)
SoftmaxColumns(sc) == AsSeq([b \in 1..Len(sc) |-> SoftmaxOverRows(sc[b])])

\* torch.softmax(scores, dim=-1)
Softmax(sc) ==
    AsSeq([b \in 1..Len(sc) |-> AsSeq([r \in 1..Len(sc[b]) |-> SoftmaxRow(sc[b][r])])])

\* torch.bmm(attention_weights, values)
AttendedValues(w, t, att) ==
    LET values == Linear(t, att.value)
    IN  AsSeq([b \in 1..Len(t) |-> AsSeq([r \in 1..Len(t[b]) |-> AsSeq([c \in 1..embedding_dim |->
            SumSeq(AsSeq([k \in 1..Len(t[b]) |-> MulW(w[b][r][k], values[b][k][c])]))])])])

SelfAttentionForward(t, att) ==
    AttendedValues(Softmax(AttentionScores(t, att)), t, att)

-----------------------------------------------------------------------------
(* Step 5: TransformerBlock.                                               *)

GenBlock(seed, n) ==
    [attention |-> GenAttention(seed, 10 * n),
     ff1       |-> GenLinear(seed, (10 * n) + 6, hidden_dim, embedding_dim),
     ff2       |-> GenLinear(seed, (10 * n) + 8, embedding_dim, hidden_dim),
     norm1     |-> GenNorm(seed, (10 * n) + 3, embedding_dim),
     norm2     |-> GenNorm(seed, (10 * n) + 5, embedding_dim)]

\* self.feed_forward: nn.Sequential(Linear, ReLU, Linear)
FeedForward(t, blk) ==
    AsSeq([b \in 1..Len(t) |-> AsSeq([r \in 1..Len(t[b]) |->
        LinearVec(ReLU(LinearVec(t[b][r], blk.ff1)), blk.ff2)])])

TransformerBlockForward(t, blk) ==
    LET att == SelfAttentionForward(t, blk.attention)
        x1  == LayerNorm(TensorAdd(t, att), blk.norm1)
        fwd == FeedForward(x1, blk)
    IN  LayerNorm(TensorAdd(x1, fwd), blk.norm2)

-----------------------------------------------------------------------------
(* SimpleLLM and the inference cell.                                       *)

MakeParams(seed) ==
    [embedding |-> GenMatrix(seed, 1, vocab_size, embedding_dim),
     blocks    |-> AsSeq([n \in 1..num_layers |-> GenBlock(seed, n)]),
     output    |-> GenLinear(seed, 7, vocab_size, embedding_dim)]

ParamFamily == {MakeParams(seed) : seed \in 0..MaxSeed}

\* torch.argmax of a row: the index of the last maximal value
RECURSIVE ArgmaxLast(_)
ArgmaxLast(row) ==
    IF Len(row) = 1 THEN 0
    ELSE IF row[Len(row)] >= MaxSeq(row) THEN Len(row) - 1
    ELSE ArgmaxLast(SubSeq(row, 1, Len(row) - 1))

\* torch.argmax of a row: the index (from 0) of the first maximal value
RECURSIVE ArgmaxFrom(_, _, _)
ArgmaxFrom(row, k, best) ==
    IF k > Len(row) THEN best - 1
    ELSE ArgmaxFrom(row, k + 1, IF row[k] > row[best] THEN k ELSE best)

Argmax(row) == ArgmaxFrom(row, 2, 1)

-----------------------------------------------------------------------------
(* The values of the variables an operation does not use.                  *)

NoCall  == [input |-> <<>>, params |-> <<>>, output |-> Ok(<<>>)]
Pending == [err |-> "pending", val |-> <<>>]

TokUnused == text = <<>> /\ vocab = <<>> /\ tokens = NoTokens

NetUnused ==
    /\ params = <<>> /\ pe = <<>> /\ input = <<>> /\ x = <<>>
    /\ attended = <<>> /\ forwarded = <<>> /\ scores = <<>>
    /\ attention_weights = <<>> /\ output = Ok(<<>>) /\ last = NoCall
    /\ predicted_token = -1 /\ layer = 0 /\ caller = ""

TrainUnused ==
    /\ data = <<>> /\ epoch = 0 /\ sent = 0 /\ i = 0 /\ input_seq = <<>>
    /\ target = -1 /\ loss = <<>> /\ grads = <<>> /\ steps = 0 /\ phases = <<>>

-----------------------------------------------------------------------------
(* A call of tokenize(text, vocab) on any text and any vocabulary.         *)

InitTokenize ==
    /\ pc = "call"
    /\ text \in Texts
    /\ vocab \in Vocabs
    /\ tokens = NoTokens
    /\ NetUnused
    /\ TrainUnused

Tokenize ==
    /\ pc = "call"
    /\ tokens' = tokenize(text, vocab)
    /\ pc' = "done"
    /\ UNCHANGED <<text, vocab>>
    /\ UNCHANGED <<netVars, trainVars>>

NextTokenize == Tokenize

SpecTokenize == InitTokenize /\ [][NextTokenize]_vars

\* the positions of the text where a word starts, and where that word ends
WordStarts(t) ==
    {s \in 1..Len(t) : ~IsSpace(t[s]) /\ (s = 1 \/ IsSpace(t[s - 1]))}

WordEnd(t, s) ==
    CHOOSE e \in s..Len(t) :
        /\ \A j \in s..e : ~IsSpace(t[j])
        /\ e = Len(t) \/ IsSpace(t[e + 1])

\* the k-th whitespace-separated word of the text
WordAt(t, k) ==
    LET s == CHOOSE s \in WordStarts(t) :
                 Cardinality({q \in WordStarts(t) : q < s}) = k - 1
    IN  SubSeq(t, s, WordEnd(t, s))

\* C1: with "<UNK>" in the vocabulary, tokenize returns, without raising, one
\* ID per whitespace-separated word of the text, in order: the word's own ID
\* when the word is a key, the ID of "<UNK>" otherwise; no word, empty list.
C1_OneIdPerWord ==
    (pc = "done" /\ UNK \in DOMAIN vocab) =>
        /\ tokens.err = ""
        /\ Len(tokens.ids) = Cardinality(WordStarts(text))
        /\ \A k \in 1..Len(tokens.ids) :
               tokens.ids[k] = IF WordAt(text, k) \in DOMAIN vocab
                               THEN vocab[WordAt(text, k)]
                               ELSE vocab[UNK]

\* a text with a known word, then blanks, then an unknown word, tokenized
C1_Witness ==
    /\ pc = "done" /\ UNK \in DOMAIN vocab
    /\ Len(tokens.ids) = 2
    /\ Len(text) = 3 /\ IsSpace(text[2])
    /\ <<text[1]>> \in DOMAIN vocab
    /\ <<text[3]>> \notin DOMAIN vocab
    /\ tokens.ids[1] # tokens.ids[2]

\* C2: tokenize raises only when "<UNK>" is no key of the vocabulary; with the
\* key it returns a sequence; raising or not, it leaves text and vocab as
\* they were.
C2_FailsOnlyWithoutUnk ==
    /\ [](pc = "done" =>
            /\ tokens.err # "" => UNK \notin DOMAIN vocab
            /\ UNK \in DOMAIN vocab => tokens.err = "" /\ tokens.ids \in Seq(0..MaxId))
    /\ [][text' = text /\ vocab' = vocab]_vars

\* a call that raised KeyError
C2_Witness ==
    /\ pc = "done" /\ tokens.err = "KeyError" /\ UNK \notin DOMAIN vocab
    /\ DOMAIN vocab # {}

-----------------------------------------------------------------------------
(* A call of PositionalEncoding.forward, on a module constructed with any  *)
(* max_seq_len, with an input of shape (L, B, embedding_dim).              *)

InitPosEnc ==
    /\ pc = "call"
    /\ pe \in {PETable(embedding_dim, m) : m \in 1..MaxSeqLen}
    /\ input \in {GenTensor(seed, n, b) :
                     seed \in 0..MaxSeed, n \in 0..(MaxSeqLen + 1), b \in 1..MaxBatch}
    /\ output = Pending
    /\ params = <<>> /\ x = <<>> /\ attended = <<>> /\ forwarded = <<>>
    /\ scores = <<>> /\ attention_weights = <<>> /\ last = NoCall
    /\ predicted_token = -1 /\ layer = 0 /\ caller = ""
    /\ TokUnused
    /\ TrainUnused

PositionalEncodingForward ==
    /\ pc = "call"
    /\ output' = PEForward(input, pe)
    /\ pc' = "done"
    /\ UNCHANGED <<params, pe, input, x, attended, forwarded, scores,
                   attention_weights, last, predicted_token, layer, caller>>
    /\ UNCHANGED <<tokVars, trainVars>>

NextPosEnc == PositionalEncodingForward

SpecPosEnc == InitPosEnc /\ [][NextPosEnc]_vars

\* C4: a call of PositionalEncoding.forward with a sequence longer than
\* max_seq_len raises; it returns no result.
C4_LongerThanMaxSeqLenRaises ==
    (pc = "done" /\ Len(input) > Len(pe)) => output.err # ""

-----------------------------------------------------------------------------
(* A call of SelfAttention.forward on an input of shape                    *)
(* (B, L, embedding_dim), L = 0 included.                                  *)

InitAttention ==
    /\ pc = "call"
    /\ params \in {GenAttention(seed, 10) : seed \in 0..MaxSeed}
    /\ input \in {GenTensor(seed, b, n) :
                     seed \in 0..MaxSeed, b \in 1..MaxBatch, n \in 0..MaxLen}
    /\ output = Pending
    /\ scores = <<>> /\ attention_weights = <<>>
    /\ pe = <<>> /\ x = <<>> /\ attended = <<>> /\ forwarded = <<>>
    /\ last = NoCall /\ predicted_token = -1 /\ layer = 0 /\ caller = ""
    /\ TokUnused
    /\ TrainUnused

SelfAttention ==
    /\ pc = "call"
    /\ scores' = AttentionScores(input, params)
    /\ attention_weights' = Softmax(scores')
    /\ output' = Ok(AttendedValues(attention_weights', input, params))
    /\ pc' = "done"
    /\ UNCHANGED <<params, pe, input, x, attended, forwarded, last,
                   predicted_token, layer, caller>>
    /\ UNCHANGED <<tokVars, trainVars>>

NextAttention == SelfAttention

SpecAttention == InitAttention /\ [][NextAttention]_vars

\* the input holds at least one sequence and every sequence of it is empty
EmptySequences(t) == \A b \in 1..Len(t) : Len(t[b]) = 0

\* C7: SelfAttention.forward on an empty sequence (L = 0) ends in an error of
\* its own kind (not the configuration or the index error) and returns nothing.
C7_EmptySequenceRaises ==
    (pc = "done" /\ EmptySequences(input)) =>
        output.err \notin {"", "RuntimeError", "KeyError", "IndexError"}

\* 1e-5 at the scale of the attention weights
Tolerance == WScale \div (100 * Scale)

\* C8: on a non-empty input of shape L x D (per batch element) the output of
\* SelfAttention.forward has that shape; the attention weights are L x L,
\* each at least 0, each row summing to 1 within 1e-5; nothing is masked: a
\* later position gets a weight like any other, never below that of a
\* position with a lower score.
C8_AttentionWeightsRowStochastic ==
    (pc = "done" /\ ~EmptySequences(input)) =>
        /\ output.err = ""
        /\ Len(output.val) = Len(input)
        /\ Len(attention_weights) = Len(input)
        /\ \A b \in 1..Len(input) :
            LET n == Len(input[b])
                w == attention_weights[b]
            IN  /\ Len(output.val[b]) = n
                /\ \A r \in 1..n : Len(output.val[b][r]) = Len(input[b][r])
                /\ Len(w) = n
                /\ \A r \in 1..n :
                    /\ Len(w[r]) = n
                    /\ \A c \in 1..n : w[r][c] >= 0
                    /\ Abs(SumSeq(w[r]) - WScale) <= Tolerance
                    /\ \A c, k \in 1..n :
                           scores[b][r][c] >= scores[b][r][k] => w[r][c] >= w[r][k]
                    /\ \E c \in 1..n : w[r][c] > 0 /\ scores[b][r][c] = MaxSeq(scores[b][r])

\* the first position of a sequence of three gives weight to both later ones,
\* and the weights are not all equal
C8_Witness ==
    /\ pc = "done" /\ Len(input[1]) = 3
    /\ attention_weights[1][1][2] > 0
    /\ attention_weights[1][1][3] > attention_weights[1][1][1]

-----------------------------------------------------------------------------
(* A call of TransformerBlock.forward, statement by statement.             *)

InitBlock ==
    /\ pc = "attention"
    /\ params \in {GenBlock(seed, 1) : seed \in 0..MaxSeed}
    /\ input \in {GenTensor(seed, b, n) :
                     seed \in 0..MaxSeed, b \in 1..MaxBatch, n \in 0..MaxLen}
    /\ x = input
    /\ attended = <<>> /\ forwarded = <<>>
    /\ output = Pending
    /\ scores = <<>> /\ attention_weights = <<>> /\ pe = <<>>
    /\ last = NoCall /\ predicted_token = -1 /\ layer = 0 /\ caller = ""
    /\ TokUnused
    /\ TrainUnused

blockFrame == <<params, pe, input, scores, attention_weights, last,
                predicted_token, layer, caller, tokVars, trainVars>>

\* attended = self.attention(x)
BlockAttention ==
    /\ pc = "attention"
    /\ attended' = SelfAttentionForward(x, params.attention)
    /\ pc' = "norm1"
    /\ UNCHANGED <<x, forwarded, output, blockFrame>>

\* x = self.norm1(x + attended)
BlockNorm1 ==
    /\ pc = "norm1"
    /\ x' = LayerNorm(TensorAdd(x, attended), params.norm1)
    /\ pc' = "feed_forward"
    /\ UNCHANGED <<attended, forwarded, output, blockFrame>>

\* forwarded = self.feed_forward(x)
BlockFeedForward ==
    /\ pc = "feed_forward"
    /\ forwarded' = FeedForward(x, params)
    /\ pc' = "norm2"
    /\ UNCHANGED <<x, attended, output, blockFrame>>

\* x = self.norm2(input + forwarded): the residual taken from the block's input
BlockNorm2OnInput ==
    /\ pc = "norm2"
    /\ x' = LayerNorm(TensorAdd(input, forwarded), params.norm2)
    /\ pc' = "return"
    /\ UNCHANGED <<attended, forwarded, output, blockFrame>>

\* x = self.norm2(x + forwarded)
BlockNorm2 ==
    /\ pc = "norm2"
    /\ x' = LayerNorm(TensorAdd(x, forwarded), params.norm2)
    /\ pc' = "return"
    /\ UNCHANGED <<attended, forwarded, output, blockFrame>>

\* return x
BlockReturn ==
    /\ pc = "return"
    /\ output' = Ok(x)
    /\ pc' = "done"
    /\ UNCHANGED <<x, attended, forwarded, blockFrame>>

NextBlock ==
    \/ BlockAttention
    \/ BlockNorm1
    \/ BlockFeedForward
    \/ BlockNorm2
    \/ BlockReturn

SpecBlock == InitBlock /\ [][NextBlock]_vars

\* the four values the claim names, from the block's input
ClaimAttended  == SelfAttentionForward(input, params.attention)
ClaimX1        == LayerNorm(TensorAdd(input, ClaimAttended), params.norm1)
ClaimForwarded ==
    AsSeq([b \in 1..Len(ClaimX1) |-> AsSeq([r \in 1..Len(ClaimX1[b]) |->
        LinearVec(ReLU(LinearVec(ClaimX1[b][r], params.ff1)), params.ff2)])])
ClaimOutput    == LayerNorm(TensorAdd(ClaimX1, ClaimForwarded), params.norm2)

\* C9: TransformerBlock.forward computes attended = attention(x), then
\* x1 = norm1(x + attended), then forwarded = feed_forward(x1) (linear to
\* hidden_dim, ReLU, linear back), then the output norm2(x1 + forwarded),
\* which has the shape of the input.
C9_BlockStepsInOrder ==
    /\ pc = "norm1" => attended = ClaimAttended
    /\ pc = "feed_forward" => x = ClaimX1
    /\ pc = "norm2" => x = ClaimX1 /\ forwarded = ClaimForwarded
    /\ pc = "done" =>
        /\ output = Ok(ClaimOutput)
        /\ Len(params.ff1.weight) = hidden_dim
        /\ Len(output.val) = Len(input)
        /\ \A b \in 1..Len(input) :
            /\ Len(output.val[b]) = Len(input[b])
            /\ \A r \in 1..Len(input[b]) :
                   Len(output.val[b][r]) = Len(input[b][r])

\* a finished call whose two residuals differ: norm2 over the block's input
\* would have given another output
C9_Witness ==
    /\ pc = "done" /\ Len(input[1]) >= 2
    /\ output.val # LayerNorm(TensorAdd(input, forwarded), params.norm2)
    /\ forwarded # FeedForward(attended, params)

-----------------------------------------------------------------------------
(* A session with a SimpleLLM: calls of model(input) from any cell, the    *)
(* inference cell (forward, then argmax), and optimizer.step().  forward   *)
(* runs statement by statement.                                            *)

\* PositionalEncoding's default max_seq_len, which SimpleLLM constructs it with
max_seq_len == 5000

\* the rows of the buffer that a sequence within the bounds can read
PEModelRows == Min(max_seq_len, MaxLen + 1)

\* token sequences of every length up to MaxLen: from every ID, the ID
\* repeated and the IDs counted upwards through the vocabulary
TokenSeqs ==
    {AsSeq([k \in 1..n |-> (s + (d * (k - 1))) % vocab_size]) :
        s \in 0..(vocab_size - 1), d \in 0..1, n \in 1..MaxLen}

\* rotate a sequence left by n
Rotate(q, n) == AsSeq([k \in 1..Len(q) |-> q[((k - 1 + n) % Len(q)) + 1]])

\* inputs of shape (B, L): every such sequence, alone and as the first of a batch
\* whose other elements are its rotations; and one with an ID out of range
Inputs ==
    {AsSeq([b \in 1..n |-> Rotate(q, b - 1)]) : q \in TokenSeqs, n \in 1..MaxBatch}
        \cup {<<<<0, vocab_size>>>>}

InitLLM ==
    /\ pc = "idle"
    /\ params \in ParamFamily
    /\ pe = PETable(embedding_dim, PEModelRows)
    /\ input = <<>> /\ x = <<>> /\ output = Pending
    /\ last = NoCall /\ predicted_token = -1 /\ layer = 0 /\ caller = ""
    /\ attended = <<>> /\ forwarded = <<>> /\ scores = <<>>
    /\ attention_weights = <<>>
    /\ TokUnused
    /\ TrainUnused

llmFrame == <<attended, forwarded, scores, attention_weights, tokVars,
              trainVars>>

\* a cell calls model(inp); the inference cell calls it with
\* torch.tensor(input_tokens).unsqueeze(0), a batch of one
Call ==
    /\ pc = "idle"
    /\ \E who \in {"forward", "inference"} :
        \E inp \in IF who = "inference" THEN {<<q>> : q \in TokenSeqs} ELSE Inputs :
            /\ input' = inp
            /\ caller' = who
            /\ last' = IF last.input = inp THEN last ELSE NoCall
    /\ x' = <<>>
    /\ output' = Pending
    /\ predicted_token' = -1
    /\ layer' = 1
    /\ pc' = "embedding"
    /\ UNCHANGED <<params, pe, llmFrame>>

\* x = self.embedding(x), with nn.Embedding(max_norm=...): the rows looked up
\* are rescaled in place
LLMEmbeddingMaxNorm ==
    /\ pc = "embedding"
    /\ LET r == EmbeddingForward(input, params.embedding)
           used == {input[b][k] + 1 : b \in 1..Len(input), k \in 1..Len(input[1])}
       IN  /\ r.err = ""
           /\ x' = r.val
           /\ params' = [params EXCEPT !.embedding =
                  AsSeq([t \in 1..Len(@) |->
                      IF t \in used THEN AsSeq([c \in 1..Len(@[t]) |-> @[t][c] \div 2])
                      ELSE @[t]])]
           /\ output' = output
           /\ pc' = "transpose"
    /\ UNCHANGED <<pe, input, last, predicted_token, layer, caller, llmFrame>>

\* x = self.embedding(x)
LLMEmbedding ==
    /\ pc = "embedding"
    /\ LET r == EmbeddingForward(input, params.embedding)
       IN  IF r.err = ""
           THEN x' = r.val /\ output' = output /\ pc' = "transpose"
           ELSE x' = x /\ output' = r /\ pc' = "idle"
    /\ UNCHANGED <<params, pe, input, last, predicted_token, layer, caller,
                   llmFrame>>

\* x = x.transpose(0, 1)
LLMTranspose ==
    /\ pc = "transpose"
    /\ x' = Transpose01(x)
    /\ pc' = "positional_encoding"
    /\ UNCHANGED <<params, pe, input, output, last, predicted_token, layer,
                   caller, llmFrame>>

\* x = self.positional_encoding(x)
LLMPositionalEncoding ==
    /\ pc = "positional_encoding"
    /\ LET r == PEForward(x, pe)
       IN  IF r.err = ""
           THEN x' = r.val /\ output' = output /\ pc' = "transpose_back"
           ELSE x' = x /\ output' = r /\ pc' = "idle"
    /\ UNCHANGED <<params, pe, input, last, predicted_token, layer, caller,
                   llmFrame>>

\* x = x.transpose(0, 1)
LLMTransposeBack ==
    /\ pc = "transpose_back"
    /\ x' = Transpose01(x)
    /\ pc' = "transformer_blocks"
    /\ UNCHANGED <<params, pe, input, output, last, predicted_token, layer,
                   caller, llmFrame>>

\* x = self.transformer_blocks(x): nn.Sequential runs its modules in order,
\* each on the output of the one before
LLMTransformerBlock ==
    /\ pc = "transformer_blocks"
    /\ x' = TransformerBlockForward(x, params.blocks[layer])
    /\ layer' = layer + 1
    /\ pc' = IF layer = Len(params.blocks) THEN "output" ELSE "transformer_blocks"
    /\ UNCHANGED <<params, pe, input, output, last, predicted_token, caller,
                   llmFrame>>

\* x = self.output(x)
LLMOutput ==
    /\ pc = "output"
    /\ x' = Linear(x, params.output)
    /\ pc' = "return"
    /\ UNCHANGED <<params, pe, input, output, last, predicted_token, layer,
                   caller, llmFrame>>

\* return x
LLMReturn ==
    /\ pc = "return"
    /\ output' = Ok(x)
    /\ last' = [input |-> input, params |-> params, output |-> Ok(x)]
    /\ pc' = IF caller = "inference" THEN "argmax" ELSE "idle"
    /\ UNCHANGED <<params, pe, input, x, predicted_token, layer, caller,
                   llmFrame>>

\* output[:, -1, :] of a batch of one: the logits of the last position
LastLogits(out) == out[1][Len(out[1])]

\* predicted_token = torch.argmax(output[:, -1, :]).item()
InferenceArgmax ==
    /\ pc = "argmax"
    /\ predicted_token' = Argmax(LastLogits(output.val))
    /\ pc' = "idle"
    /\ UNCHANGED <<params, pe, input, x, output, last, layer, caller, llmFrame>>

\* optimizer.step(): the weights become other weights
OptimizerStep ==
    /\ pc = "idle"
    /\ params' \in ParamFamily \ {params}
    /\ UNCHANGED <<pc, pe, input, x, output, last, predicted_token, layer,
                   caller, llmFrame>>

NextLLM ==
    \/ Call
    \/ LLMEmbedding
    \/ LLMTranspose
    \/ LLMPositionalEncoding
    \/ LLMTransposeBack
    \/ LLMTransformerBlock
    \/ LLMOutput
    \/ LLMReturn
    \/ InferenceArgmax
    \/ OptimizerStep

SpecLLM == InitLLM /\ [][NextLLM]_vars

\* C3: predict_next on a non-empty token sequence returns the index of the
\* largest logit of the last position, the lowest such index when several
\* logits tie, and the index lies in [0, vocab_size).
C3_ArgmaxLowestIndex ==
    predicted_token # -1 =>
        LET row == output.val[1][Len(input[1])]
        IN  /\ predicted_token \in 0..(vocab_size - 1)
            /\ \A c \in 1..Len(row) : row[c] <= row[predicted_token + 1]
            /\ \A c \in 1..predicted_token : row[c] < row[predicted_token + 1]

\* a prediction made where a later logit ties with the largest
C3_Witness ==
    /\ predicted_token # -1
    /\ \E c \in (predicted_token + 2)..vocab_size :
           LastLogits(output.val)[c] = LastLogits(output.val)[predicted_token + 1]
    /\ Len(input[1]) >= 2

\* encode(position), from the formula of the positional encoding
Encode(position) == PETable(embedding_dim, position + 1)[position + 1][1]

\* the embedding of each token plus the vector of its position
ClaimEmbedded ==
    AsSeq([b \in 1..Len(input) |-> AsSeq([k \in 1..Len(input[b]) |->
        VecAdd(params.embedding[input[b][k] + 1], Encode(k - 1))])])

\* the hidden state after the first n blocks, each fed the one before
RECURSIVE ClaimAfterBlocks(_)
ClaimAfterBlocks(n) ==
    IF n = 0 THEN ClaimEmbedded
    ELSE TransformerBlockForward(ClaimAfterBlocks(n - 1), params.blocks[n])

\* C5: SimpleLLM.forward embeds the tokens, adds encode(i) to the vector at
\* position i of every batch element, runs the num_layers blocks in
\* construction order, each on the output of the one before, and projects
\* every position to vocab_size logits: the result is L x vocab_size.
C5_ForwardPipeline ==
    /\ pc = "transformer_blocks" => x = ClaimAfterBlocks(layer - 1)
    /\ pc = "output" => x = ClaimAfterBlocks(num_layers)
    /\ pc = "return" =>
        /\ x = Linear(ClaimAfterBlocks(num_layers), params.output)
        /\ Len(params.blocks) = num_layers
        /\ Len(x) = Len(input)
        /\ \A b \in 1..Len(x) :
            /\ Len(x[b]) = Len(input[b])
            /\ \A k \in 1..Len(x[b]) : Len(x[b][k]) = vocab_size

\* a forward about to return on a batch of two sequences of two or more
\* tokens, with blocks that do not commute
C5_Witness ==
    /\ pc = "return" /\ Len(input) = 2 /\ Len(input[1]) >= 2
    /\ input[1] # input[2]
    /\ ClaimAfterBlocks(num_layers) #
           TransformerBlockForward(
               TransformerBlockForward(ClaimEmbedded, params.blocks[2]),
               params.blocks[1])

\* C6: no step of a forward or of predict_next changes a weight tensor or the
\* positional table: the weights change only in optimizer.step(), the table
\* never; and a forward that repeats the input of the one before, under the
\* same weights, returns the same result.
C6_ForwardKeepsNoState ==
    [][/\ pe' = pe
       /\ params' # params => OptimizerStep
       /\ (pc = "return" /\ last.input = input /\ last.params = params)
              => output' = last.output]_vars

\* a forward about to return that repeats the input and the weights of the
\* one before
C6_Witness ==
    /\ pc = "return"
    /\ last # NoCall /\ last.input = input /\ last.params = params
    /\ Len(input[1]) >= 2

-----------------------------------------------------------------------------
(* The training cell.  The weights are held as the number of updates made  *)
(* to them; the forward pass, the loss and the gradients as records of     *)
(* what they were computed from (autograd and Adam are not modelled).      *)

NumEpochs == 100

NotebookVocab ==
    (<<"hello">> :> 0) @@ (<<"world">> :> 1) @@ (<<"what">> :> 2)
    @@ (<<"are">> :> 3) @@ (<<"you">> :> 4) @@ (<<"doing">> :> 5)
    @@ (UNK :> 6)

NotebookData ==
    << <<"hello", " ", "world", " ", "what", " ", "are", " ", "you", " ", "doing">>,
       <<"what", " ", "are", " ", "you", " ", "doing", " ", "hello", " ", "world">> >>

\* the notebook's data, and shorter lists of sentences
Datasets ==
    { NotebookData,
      << <<"hello", " ", "world", " ", "what">> >>,
      << <<"you", " ", "doing">>, <<"hello">>, <<"what", " ", "are", " ", "xyz">> >>,
      << <<"are", " ", "you">>, <<>>, <<"doing", " ", "what">> >> }

\* range(len(sentence)): from 0
PrefixRangeFromZero(sentence) == 0..(Len(sentence) - 1)

\* range(1, len(sentence))
PrefixRange(sentence) == 1..(Len(sentence) - 1)

\* sentence[:n]
Prefix(sentence, n) == SubSeq(sentence, 1, n)

InitTrain ==
    /\ pc = "for_epoch"
    /\ \E d \in Datasets :
           data = AsSeq([k \in 1..Len(d) |-> tokenize(d[k], NotebookVocab).ids])
    /\ params = 0
    /\ epoch = -1 /\ sent = 0 /\ i = -1
    /\ input_seq = <<>> /\ target = -1
    /\ output = Pending /\ loss = <<>> /\ grads = <<>>
    /\ steps = 0 /\ phases = <<>>
    /\ pe = <<>> /\ input = <<>> /\ x = <<>> /\ attended = <<>>
    /\ forwarded = <<>> /\ scores = <<>> /\ attention_weights = <<>>
    /\ last = NoCall /\ predicted_token = -1 /\ layer = 0 /\ caller = ""
    /\ TokUnused

trainFrame == <<pe, input, x, attended, forwarded, scores, attention_weights,
                last, predicted_token, layer, caller, tokVars, data>>

\* for epoch in range(100):
ForEpoch ==
    /\ pc = "for_epoch"
    /\ IF epoch + 1 < NumEpochs
       THEN epoch' = epoch + 1 /\ sent' = 0 /\ pc' = "for_sentence"
       ELSE epoch' = epoch /\ sent' = sent /\ pc' = "done"
    /\ UNCHANGED <<params, i, input_seq, target, output, loss, grads, steps,
                   phases, trainFrame>>

\* for sentence in tokenized_data:  (i = -1: the range over the sentence is
\* not begun)
ForSentence ==
    /\ pc = "for_sentence"
    /\ IF sent < Len(data)
       THEN sent' = sent + 1 /\ i' = -1 /\ pc' = "for_i"
       ELSE sent' = sent /\ i' = i /\ pc' = "print"
    /\ UNCHANGED <<params, epoch, input_seq, target, output, loss, grads,
                   steps, phases, trainFrame>>

\* for i in range(1, len(sentence)):
ForI ==
    /\ pc = "for_i"
    /\ LET rest == {n \in PrefixRange(data[sent]) : n > i}
       IN  IF rest # {}
           THEN i' = (CHOOSE n \in rest : \A m \in rest : n <= m)
                /\ pc' = "example"
           ELSE i' = i /\ pc' = "for_sentence"
    /\ phases' = <<>>
    /\ UNCHANGED <<params, epoch, sent, input_seq, target, output, loss, grads,
                   steps, trainFrame>>

\* input_seq = torch.tensor(sentence[:i]).unsqueeze(0)
\* target = torch.tensor(sentence[i]).unsqueeze(0)
BuildExample ==
    /\ pc = "example"
    /\ input_seq' = Prefix(data[sent], i)
    /\ target' = data[sent][i + 1]
    /\ pc' = "zero_grad"
    /\ UNCHANGED <<params, epoch, sent, i, output, loss, grads, steps, phases,
                   trainFrame>>

\* optimizer.zero_grad()
ZeroGrad ==
    /\ pc = "zero_grad"
    /\ grads' = <<>>
    /\ phases' = Append(phases, "zero_grad")
    /\ pc' = "forward"
    /\ UNCHANGED <<params, epoch, sent, i, input_seq, target, output, loss,
                   steps, trainFrame>>

\* output = model(input_seq)
TrainForward ==
    /\ pc = "forward"
    /\ output' = Ok([weights |-> params, input |-> <<input_seq>>])
    /\ phases' = Append(phases, "forward")
    /\ pc' = "loss"
    /\ UNCHANGED <<params, epoch, sent, i, input_seq, target, loss, grads,
                   steps, trainFrame>>

\* loss = criterion(output[:, -1, :], target)
TrainLoss ==
    /\ pc = "loss"
    /\ loss' = <<[of |-> output.val, position |-> Len(output.val.input[1]),
                  target |-> target]>>
    /\ phases' = Append(phases, "loss")
    /\ pc' = "backward"
    /\ UNCHANGED <<params, epoch, sent, i, input_seq, target, output, grads,
                   steps, trainFrame>>

\* loss.backward()
Backward ==
    /\ pc = "backward"
    /\ grads' = loss
    /\ phases' = Append(phases, "backward")
    /\ pc' = "optimizer_step"
    /\ UNCHANGED <<params, epoch, sent, i, input_seq, target, output, loss,
                   steps, trainFrame>>

\* optimizer.step()
TrainOptimizerStep ==
    /\ pc = "optimizer_step"
    /\ params' = params + 1
    /\ steps' = steps + 1
    /\ phases' = Append(phases, "optimizer_step")
    /\ pc' = "for_i"
    /\ UNCHANGED <<epoch, sent, i, input_seq, target, output, loss, grads,
                   trainFrame>>

\* if epoch % 10 == 0: print(... loss.item() ...): NameError when no step has
\* assigned loss
PrintLoss ==
    /\ pc = "print"
    /\ pc' = IF epoch % 10 = 0 /\ loss = <<>> THEN "raised" ELSE "for_epoch"
    /\ UNCHANGED <<params, epoch, sent, i, input_seq, target, output, loss,
                   grads, steps, phases, trainFrame>>

NextTrain ==
    \/ ForEpoch
    \/ ForSentence
    \/ ForI
    \/ BuildExample
    \/ ZeroGrad
    \/ TrainForward
    \/ TrainLoss
    \/ Backward
    \/ TrainOptimizerStep
    \/ PrintLoss

SpecTrain == InitTrain /\ [][NextTrain]_vars

\* the cell runs on: a step that can be taken is taken
SpecTrainFair == SpecTrain /\ WF_vars(NextTrain)

\* the training steps a sentence gives, an epoch gives, and the sentences
\* before the s-th give
StepsOf(sentence) == Max(Len(sentence) - 1, 0)
StepsPerEpoch     == SumSeq(AsSeq([k \in 1..Len(data) |-> StepsOf(data[k])]))
StepsBefore(s)    == SumSeq(AsSeq([k \in 1..(s - 1) |-> StepsOf(data[k])]))

StepCalls == <<"zero_grad", "forward", "loss", "backward", "optimizer_step">>
InStep    == \E k \in 1..Len(StepCalls) : pc = StepCalls[k]

C10_EveryState ==
    \* the weights are the initial ones updated once per optimizer.step()
    /\ params = steps
    \* the step in progress is the next in the order epoch, sentence, i; its
    \* input is the first i tokens and its target the token at index i
    /\ InStep =>
        /\ 1 <= i /\ i <= Len(data[sent]) - 1
        /\ steps = (epoch * StepsPerEpoch) + StepsBefore(sent) + (i - 1)
        /\ Len(input_seq) = i
        /\ \A k \in 1..i : input_seq[k] = data[sent][k]
        /\ target = data[sent][i + 1]
        \* the calls made so far in this step are the ones before pc, in order
        /\ \A k \in 1..Len(StepCalls) :
               pc = StepCalls[k] => phases = SubSeq(StepCalls, 1, k - 1)
        /\ pc \in {"loss", "backward", "optimizer_step"} =>
               output.val = [weights |-> steps, input |-> <<input_seq>>]
        /\ pc \in {"backward", "optimizer_step"} =>
               loss = <<[of |-> output.val, position |-> i, target |-> target]>>
    /\ (pc = "for_i" /\ i # -1) => phases \in {<<>>, StepCalls}
    \* at the end 100 epochs have run, each with all its steps
    /\ pc = "done" =>
        /\ epoch = NumEpochs - 1
        /\ steps = NumEpochs * StepsPerEpoch
        /\ (Len(data) = 2 /\ Len(data[1]) = 6 /\ Len(data[2]) = 6) =>
               steps = 1000
    /\ pc # "raised"

\* C10: the training loop ends after exactly 100 epochs; in each it visits
\* the sentences in order and, for a sentence of n tokens, runs one step for
\* each i = 1 .. n-1 in increasing order, on the first i tokens with the token
\* at index i as target; a step calls zero_grad, forward, the loss on the last
\* position, backward, optimizer.step in that order, and the weights change
\* only at optimizer.step (1000 steps for the two six-word sentences).
C10_TrainingLoop == []C10_EveryState /\ <>(pc = "done")

\* the notebook's run, ended after its 1000 steps
C10_Witness ==
    /\ pc = "done" /\ steps = 1000
    /\ data = <<<<0, 1, 2, 3, 4, 5>>, <<2, 3, 4, 5, 0, 1>>>>

=============================================================================
